---- MODULE Spec2Model ----
(***************************************************************************)
(* Model of src/app.py: the Streamlit credit-risk assessment script.       *)
(*                                                                         *)
(* One run of the script is modelled in the sections the source marks:     *)
(* the widgets and the applicant summary (lines 25-78), the prediction     *)
(* (lines 80-95) and the risk-reduction explanation (lines 97-219).  The   *)
(* state is what survives between steps: the cached pipeline, the sidebar  *)
(* inputs, and what the current run has rendered so far.                   *)
(*                                                                         *)
(* Numbers.  The script computes in IEEE doubles; the model computes in    *)
(* exact rationals (records [num, den] in lowest terms), so equalities     *)
(* proved here are equalities of the real-number values the doubles        *)
(* approximate.  Python's 0-based indices are 1-based here; the order of   *)
(* indices is the same.                                                    *)
(*                                                                         *)
(* Strings that the script searches (feature names, table keys) are        *)
(* sequences of one-character strings, so that `key in fname` and          *)
(* `startswith` are computed character by character.  Texts that are only  *)
(* displayed are TLA+ strings (the en dash of lines 137-140 is written     *)
(* as a hyphen).                                                           *)
(***************************************************************************)
EXTENDS Integers, Sequences, FiniteSets, TLC

VARIABLES
  pipeline,       \* the cached model, lines 10-14
  input_data,     \* the applicant record built from the widgets, lines 41-53
  pc,             \* where the current run stands: "idle" (finished),
                  \* "explain" (line 97 is next)
  pd_val,         \* line 82, as rendered by line 87; None before
  risk,           \* line 83, as rendered by line 88; "none" before
  banner,         \* lines 90-95
  feature_pcts,   \* lines 116-119; <<>> before
  contributions,  \* the entries rendered by lines 209-212, in order
  shown,          \* lines 154 and 213
  note            \* the closing element: "prompt" (line 223), "strong"
                  \* (line 216), "unavailable" (line 219), "uncaught" (an
                  \* exception left the script), "none"

vars == <<pipeline, input_data, pc, pd_val, risk, banner,
          feature_pcts, contributions, shown, note>>

----------------------------------------------------------------------------
(* Bounds of the model.                                                    *)

\* Each numeric sidebar widget ranges over 0..MaxRaw steps.
MaxRaw == 1

----------------------------------------------------------------------------
(* Exact rational arithmetic.                                              *)

RECURSIVE Gcd(_, _)
Gcd(a, b) == IF b = 0 THEN a ELSE Gcd(b, a % b)

Abs(x) == IF x < 0 THEN -x ELSE x

\* n/d in lowest terms, d > 0.
Rat(n, d) ==
  LET g == Gcd(Abs(n), Abs(d))
      s == IF d < 0 THEN -1 ELSE 1
  IN [num |-> s * (n \div g), den |-> s * (d \div g)]

Lcm(a, b) == (a \div Gcd(a, b)) * b

RatOfInt(n) == [num |-> n, den |-> 1]

RatMul(a, b) ==
  LET g1 == Gcd(Abs(a.num), b.den)
      g2 == Gcd(Abs(b.num), a.den)
  IN [num |-> (a.num \div g1) * (b.num \div g2),
      den |-> (a.den \div g2) * (b.den \div g1)]

\* a / b for b # 0.
RatDiv(a, b) ==
  RatMul(a, IF b.num < 0 THEN [num |-> -b.den, den |-> -b.num]
                         ELSE [num |-> b.den, den |-> b.num])

RatAdd(a, b) ==
  LET l == Lcm(a.den, b.den)
  IN Rat(a.num * (l \div a.den) + b.num * (l \div b.den), l)

RatLess(a, b) ==
  LET l == Lcm(a.den, b.den)
  IN a.num * (l \div a.den) < b.num * (l \div b.den)

RatLeq(a, b) == ~RatLess(b, a)

RECURSIVE RatSum(_)
RatSum(s) == IF s = <<>> THEN RatOfInt(0) ELSE RatAdd(Head(s), RatSum(Tail(s)))

RECURSIVE IntSum(_)
IntSum(s) == IF s = <<>> THEN 0 ELSE Head(s) + IntSum(Tail(s))

\* The value a variable holds before the script assigns it.
None == [num |-> 0, den |-> 0]

----------------------------------------------------------------------------
(* Character-sequence strings.                                             *)

\* Python's `key in fname`.
IsSubstring(key, s) ==
  \E i \in 0..(Len(s) - Len(key)) : SubSeq(s, i + 1, i + Len(key)) = key

\* Python's `s.startswith(prefix)`.
StartsWith(s, prefix) ==
  Len(prefix) <= Len(s) /\ SubSeq(s, 1, Len(prefix)) = prefix

----------------------------------------------------------------------------
(* The helper, lines 17-23.                                                *)

\* The literals 0.10 and 0.25.
LowThreshold == Rat(10, 100)
MediumThreshold == Rat(25, 100)

\* Mutant: the thresholds compared with <= (a boundary value falls in the
\* lower bucket).
risk_bucket_inclusive(p) ==
  IF RatLeq(p, LowThreshold) THEN "Low"
  ELSE IF RatLeq(p, MediumThreshold) THEN "Medium"
  ELSE "High"

risk_bucket(p) ==
  IF RatLess(p, LowThreshold) THEN "Low"
  ELSE IF RatLess(p, MediumThreshold) THEN "Medium"
  ELSE "High"

\* Lines 90-95: the banner shown for each risk level.
BannerOf(r) ==
  IF r = "Low" THEN "success"
  ELSE IF r = "Medium" THEN "warning"
  ELSE "error"

----------------------------------------------------------------------------
(* The tables of the explanation, lines 122-149 and 171-198.  A Python     *)
(* dict iterates in insertion order, so each table is a sequence.          *)

suggestion_map ==
  <<
    [key |-> <<"p","e","r","s","o","n","_","a","g","e">>,
     text |-> "Younger applicants tend to carry higher risk; age is not changeable but longer credit history helps."],
    [key |-> <<"p","e","r","s","o","n","_","i","n","c","o","m","e">>,
     text |-> "A higher income reduces default probability. Consider ways to increase earnings."],
    [key |-> <<"p","e","r","s","o","n","_","e","m","p","_","l","e","n","g","t","h">>,
     text |-> "Longer employment tenure signals income stability to lenders."],
    [key |-> <<"l","o","a","n","_","a","m","n","t">>,
     text |-> "Requesting a smaller loan amount would reduce risk exposure."],
    [key |-> <<"l","o","a","n","_","i","n","t","_","r","a","t","e">>,
     text |-> "A lower interest rate reduces repayment burden. Improving creditworthiness can help."],
    [key |-> <<"l","o","a","n","_","p","e","r","c","e","n","t","_","i","n","c","o","m","e">>,
     text |-> "Lowering the loan-to-income ratio by borrowing less or earning more reduces risk."],
    [key |-> <<"c","b","_","p","e","r","s","o","n","_","c","r","e","d","_","h","i","s","t","_","l","e","n","g","t","h">>,
     text |-> "Building a longer credit history strengthens the applicant's profile."],
    [key |-> <<"p","e","r","s","o","n","_","h","o","m","e","_","o","w","n","e","r","s","h","i","p","_","R","E","N","T">>,
     text |-> "Stable housing or home ownership may slightly reduce risk."],
    [key |-> <<"p","e","r","s","o","n","_","h","o","m","e","_","o","w","n","e","r","s","h","i","p","_","O","W","N">>,
     text |-> "Owning a home is generally positive for creditworthiness."],
    [key |-> <<"p","e","r","s","o","n","_","h","o","m","e","_","o","w","n","e","r","s","h","i","p","_","M","O","R","T","G","A","G","E">>,
     text |-> "Having a mortgage indicates financial commitment and stability."],
    [key |-> <<"p","e","r","s","o","n","_","h","o","m","e","_","o","w","n","e","r","s","h","i","p","_","O","T","H","E","R">>,
     text |-> "Stable housing or home ownership may slightly reduce risk."],
    [key |-> <<"l","o","a","n","_","g","r","a","d","e","_","A">>,
     text |-> "This is already the best loan grade."],
    [key |-> <<"l","o","a","n","_","g","r","a","d","e","_","B">>,
     text |-> "Improving this factor could reduce default probability."],
    [key |-> <<"l","o","a","n","_","g","r","a","d","e","_","C">>,
     text |-> "Improving this factor could reduce default probability."],
    [key |-> <<"l","o","a","n","_","g","r","a","d","e","_","D">>,
     text |-> "A better loan grade (A-C) would significantly lower risk."],
    [key |-> <<"l","o","a","n","_","g","r","a","d","e","_","E">>,
     text |-> "A better loan grade (A-C) would significantly lower risk."],
    [key |-> <<"l","o","a","n","_","g","r","a","d","e","_","F">>,
     text |-> "A better loan grade (A-C) would significantly lower risk."],
    [key |-> <<"l","o","a","n","_","g","r","a","d","e","_","G">>,
     text |-> "A better loan grade (A-C) would significantly lower risk."],
    [key |-> <<"l","o","a","n","_","i","n","t","e","n","t","_","E","D","U","C","A","T","I","O","N">>,
     text |-> "Education loans are generally viewed as investments in future earning potential."],
    [key |-> <<"l","o","a","n","_","i","n","t","e","n","t","_","M","E","D","I","C","A","L">>,
     text |-> "Medical loans are essential; maintaining insurance coverage can reduce need."],
    [key |-> <<"l","o","a","n","_","i","n","t","e","n","t","_","V","E","N","T","U","R","E">>,
     text |-> "Improving this factor could reduce default probability."],
    [key |-> <<"l","o","a","n","_","i","n","t","e","n","t","_","P","E","R","S","O","N","A","L">>,
     text |-> "Improving this factor could reduce default probability."],
    [key |-> <<"l","o","a","n","_","i","n","t","e","n","t","_","D","E","B","T","C","O","N","S","O","L","I","D","A","T","I","O","N">>,
     text |-> "Consolidating debt can be positive if it lowers overall payments."],
    [key |-> <<"l","o","a","n","_","i","n","t","e","n","t","_","H","O","M","E","I","M","P","R","O","V","E","M","E","N","T">>,
     text |-> "Home improvement loans can add value to owned property."],
    [key |-> <<"c","b","_","p","e","r","s","o","n","_","d","e","f","a","u","l","t","_","o","n","_","f","i","l","e","_","Y">>,
     text |-> "Having a previous default significantly raises risk. Clearing obligations helps."],
    [key |-> <<"c","b","_","p","e","r","s","o","n","_","d","e","f","a","u","l","t","_","o","n","_","f","i","l","e","_","N">>,
     text |-> "No previous default is a positive signal."]
  >>
readable_map ==
  <<
    [key |-> <<"p","e","r","s","o","n","_","a","g","e">>,
     label |-> <<"A","g","e">>],
    [key |-> <<"p","e","r","s","o","n","_","i","n","c","o","m","e">>,
     label |-> <<"A","n","n","u","a","l"," ","I","n","c","o","m","e">>],
    [key |-> <<"p","e","r","s","o","n","_","e","m","p","_","l","e","n","g","t","h">>,
     label |-> <<"E","m","p","l","o","y","m","e","n","t"," ","L","e","n","g","t","h">>],
    [key |-> <<"p","e","r","s","o","n","_","h","o","m","e","_","o","w","n","e","r","s","h","i","p","_","R","E","N","T">>,
     label |-> <<"H","o","m","e"," ","O","w","n","e","r","s","h","i","p",":"," ","R","e","n","t">>],
    [key |-> <<"p","e","r","s","o","n","_","h","o","m","e","_","o","w","n","e","r","s","h","i","p","_","O","W","N">>,
     label |-> <<"H","o","m","e"," ","O","w","n","e","r","s","h","i","p",":"," ","O","w","n">>],
    [key |-> <<"p","e","r","s","o","n","_","h","o","m","e","_","o","w","n","e","r","s","h","i","p","_","M","O","R","T","G","A","G","E">>,
     label |-> <<"H","o","m","e"," ","O","w","n","e","r","s","h","i","p",":"," ","M","o","r","t","g","a","g","e">>],
    [key |-> <<"p","e","r","s","o","n","_","h","o","m","e","_","o","w","n","e","r","s","h","i","p","_","O","T","H","E","R">>,
     label |-> <<"H","o","m","e"," ","O","w","n","e","r","s","h","i","p",":"," ","O","t","h","e","r">>],
    [key |-> <<"l","o","a","n","_","i","n","t","e","n","t","_","E","D","U","C","A","T","I","O","N">>,
     label |-> <<"L","o","a","n"," ","P","u","r","p","o","s","e",":"," ","E","d","u","c","a","t","i","o","n">>],
    [key |-> <<"l","o","a","n","_","i","n","t","e","n","t","_","M","E","D","I","C","A","L">>,
     label |-> <<"L","o","a","n"," ","P","u","r","p","o","s","e",":"," ","M","e","d","i","c","a","l">>],
    [key |-> <<"l","o","a","n","_","i","n","t","e","n","t","_","V","E","N","T","U","R","E">>,
     label |-> <<"L","o","a","n"," ","P","u","r","p","o","s","e",":"," ","V","e","n","t","u","r","e">>],
    [key |-> <<"l","o","a","n","_","i","n","t","e","n","t","_","P","E","R","S","O","N","A","L">>,
     label |-> <<"L","o","a","n"," ","P","u","r","p","o","s","e",":"," ","P","e","r","s","o","n","a","l">>],
    [key |-> <<"l","o","a","n","_","i","n","t","e","n","t","_","D","E","B","T","C","O","N","S","O","L","I","D","A","T","I","O","N">>,
     label |-> <<"L","o","a","n"," ","P","u","r","p","o","s","e",":"," ","D","e","b","t"," ","C","o","n","s","o","l","i","d","a","t","i","o","n">>],
    [key |-> <<"l","o","a","n","_","i","n","t","e","n","t","_","H","O","M","E","I","M","P","R","O","V","E","M","E","N","T">>,
     label |-> <<"L","o","a","n"," ","P","u","r","p","o","s","e",":"," ","H","o","m","e"," ","I","m","p","r","o","v","e","m","e","n","t">>],
    [key |-> <<"l","o","a","n","_","g","r","a","d","e","_","A">>,
     label |-> <<"L","o","a","n"," ","G","r","a","d","e",":"," ","A">>],
    [key |-> <<"l","o","a","n","_","g","r","a","d","e","_","B">>,
     label |-> <<"L","o","a","n"," ","G","r","a","d","e",":"," ","B">>],
    [key |-> <<"l","o","a","n","_","g","r","a","d","e","_","C">>,
     label |-> <<"L","o","a","n"," ","G","r","a","d","e",":"," ","C">>],
    [key |-> <<"l","o","a","n","_","g","r","a","d","e","_","D">>,
     label |-> <<"L","o","a","n"," ","G","r","a","d","e",":"," ","D">>],
    [key |-> <<"l","o","a","n","_","g","r","a","d","e","_","E">>,
     label |-> <<"L","o","a","n"," ","G","r","a","d","e",":"," ","E">>],
    [key |-> <<"l","o","a","n","_","g","r","a","d","e","_","F">>,
     label |-> <<"L","o","a","n"," ","G","r","a","d","e",":"," ","F">>],
    [key |-> <<"l","o","a","n","_","g","r","a","d","e","_","G">>,
     label |-> <<"L","o","a","n"," ","G","r","a","d","e",":"," ","G">>],
    [key |-> <<"l","o","a","n","_","a","m","n","t">>,
     label |-> <<"L","o","a","n"," ","A","m","o","u","n","t">>],
    [key |-> <<"l","o","a","n","_","i","n","t","_","r","a","t","e">>,
     label |-> <<"I","n","t","e","r","e","s","t"," ","R","a","t","e">>],
    [key |-> <<"l","o","a","n","_","p","e","r","c","e","n","t","_","i","n","c","o","m","e">>,
     label |-> <<"L","o","a","n","-","t","o","-","I","n","c","o","m","e"," ","R","a","t","i","o">>],
    [key |-> <<"c","b","_","p","e","r","s","o","n","_","d","e","f","a","u","l","t","_","o","n","_","f","i","l","e","_","Y">>,
     label |-> <<"P","r","e","v","i","o","u","s"," ","D","e","f","a","u","l","t",":"," ","Y","e","s">>],
    [key |-> <<"c","b","_","p","e","r","s","o","n","_","d","e","f","a","u","l","t","_","o","n","_","f","i","l","e","_","N">>,
     label |-> <<"P","r","e","v","i","o","u","s"," ","D","e","f","a","u","l","t",":"," ","N","o">>],
    [key |-> <<"c","b","_","p","e","r","s","o","n","_","c","r","e","d","_","h","i","s","t","_","l","e","n","g","t","h">>,
     label |-> <<"C","r","e","d","i","t"," ","H","i","s","t","o","r","y"," ","L","e","n","g","t","h">>]
  >>

\* Line 207: the suggestion used when no key matches.
FallbackSuggestion == "Improving this factor could reduce default probability."

\* Lines 201-207: the first key, in table order, that occurs in fname.
RECURSIVE ScanSuggestions(_, _)
ScanSuggestions(k, fname) ==
  IF k > Len(suggestion_map) THEN FallbackSuggestion
  ELSE IF IsSubstring(suggestion_map[k].key, fname) THEN suggestion_map[k].text
  ELSE ScanSuggestions(k + 1, fname)

\* Mutant: the key must start the name (`fname.startswith(key)`).
RECURSIVE ScanSuggestionsPrefix(_, _)
ScanSuggestionsPrefix(k, fname) ==
  IF k > Len(suggestion_map) THEN FallbackSuggestion
  ELSE IF StartsWith(fname, suggestion_map[k].key) THEN suggestion_map[k].text
  ELSE ScanSuggestionsPrefix(k + 1, fname)

LookupSuggestion_startswith(fname) == ScanSuggestionsPrefix(1, fname)

LookupSuggestion(fname) == ScanSuggestions(1, fname)

\* Lines 167-169: the prefixes are stripped one after the other.
StripPrefix(name, prefix) ==
  IF StartsWith(name, prefix) THEN SubSeq(name, Len(prefix) + 1, Len(name))
  ELSE name

NumPrefix == <<"n","u","m","_","_">>
CatPrefix == <<"c","a","t","_","_">>

StripPrefixes(fname) == StripPrefix(StripPrefix(fname, NumPrefix), CatPrefix)

LowerLetters == <<"a","b","c","d","e","f","g","h","i","j","k","l","m","n","o","p","q","r","s","t","u","v","w","x","y","z">>
UpperLetters == <<"A","B","C","D","E","F","G","H","I","J","K","L","M","N","O","P","Q","R","S","T","U","V","W","X","Y","Z">>

IsLetter(c) == \E k \in 1..26 : c = LowerLetters[k] \/ c = UpperLetters[k]
LetterIndex(c) == CHOOSE k \in 1..26 : c = LowerLetters[k] \/ c = UpperLetters[k]

\* Line 199, the default of readable_map.get: replace("_", " ").title().
TitleCased(name) ==
  LET spaced == [i \in 1..Len(name) |-> IF name[i] = "_" THEN " " ELSE name[i]]
  IN [i \in 1..Len(spaced) |->
        IF ~IsLetter(spaced[i]) THEN spaced[i]
        ELSE IF i = 1 \/ ~IsLetter(spaced[i - 1])
             THEN UpperLetters[LetterIndex(spaced[i])]
             ELSE LowerLetters[LetterIndex(spaced[i])]]

\* Lines 165-199.
DisplayName(fname) ==
  LET stripped == StripPrefixes(fname)
      hits == {k \in 1..Len(readable_map) : readable_map[k].key = stripped}
  IN IF hits = {} THEN TitleCased(stripped)
     ELSE readable_map[CHOOSE k \in hits : TRUE].label

----------------------------------------------------------------------------
(* The cached pipeline (lines 10-14): the artifact credit_risk_model.pkl.  *)
(* The script uses four things of it: predict_proba, the preprocess        *)
(* step's transform and get_feature_names_out, and the model step's        *)
(* feature_importances_.  A pipeline is a record                           *)
(*   columns        the output columns of the preprocess step: a numeric   *)
(*                  field centred by the fitted scaler, or a one-hot       *)
(*                  column of a category the encoder saw when fitted;      *)
(*   handle_unknown what the encoder does with a category it did not see;  *)
(*   dropped        how many columns a step between preprocess and model   *)
(*                  removes (0 when there is no such step);                *)
(*   feature_names  get_feature_names_out();                               *)
(*   importances    feature_importances_, in tenths.                       *)
(* Fields of the applicant record that no modelled pipeline reads are      *)
(* left out of input_data.                                                 *)

NumericFields ==
  {"person_income", "person_emp_length", "loan_amnt", "loan_int_rate",
   "loan_percent_income"}

\* Line 33, three of the seven grades.
LoanGrades == {"A", "D", "G"}

Fields == NumericFields \cup {"loan_grade"}

DomainOf(f) == IF f \in NumericFields THEN 0..MaxRaw ELSE LoanGrades

Num(f, c) == [kind |-> "num", field |-> f, center |-> c, cat |-> "-"]
Cat(f, v) == [kind |-> "cat", field |-> f, center |-> 0, cat |-> v]

\* Five scaled numeric columns and a one-hot column of grade D; the other
\* grades encode as 0.
FullPipeline ==
  [columns |-> <<Num("person_income", 1), Num("person_emp_length", 0),
                 Num("loan_amnt", 0), Num("loan_int_rate", 0),
                 Num("loan_percent_income", 0), Cat("loan_grade", "D")>>,
   handle_unknown |-> "ignore",
   dropped |-> 0,
   feature_names |-> <<<<"n","u","m","_","_","p","e","r","s","o","n","_","i","n","c","o","m","e">>, <<"n","u","m","_","_","p","e","r","s","o","n","_","e","m","p","_","l","e","n","g","t","h">>,
                       <<"n","u","m","_","_","l","o","a","n","_","a","m","n","t">>, <<"n","u","m","_","_","l","o","a","n","_","i","n","t","_","r","a","t","e">>,
                       <<"n","u","m","_","_","l","o","a","n","_","p","e","r","c","e","n","t","_","i","n","c","o","m","e">>, <<"c","a","t","_","_","l","o","a","n","_","g","r","a","d","e","_","D">>>>,
   importances |-> <<2, 1, 2, 2, 1, 2>>]

\* verbose_feature_names_out = False, handle_unknown = "error".
StrictPipeline ==
  [columns |-> <<Num("person_income", 1),
                 Cat("loan_grade", "A"), Cat("loan_grade", "D")>>,
   handle_unknown |-> "error",
   dropped |-> 0,
   feature_names |-> <<<<"p","e","r","s","o","n","_","i","n","c","o","m","e">>, <<"l","o","a","n","_","g","r","a","d","e","_","A">>, <<"l","o","a","n","_","g","r","a","d","e","_","D">>>>,
   importances |-> <<2, 1, 1>>]

\* Engineered columns with names of their own.
EngineeredPipeline ==
  [columns |-> <<Num("loan_percent_income", 0), Num("loan_amnt", 0),
                 Cat("loan_grade", "D")>>,
   handle_unknown |-> "ignore",
   dropped |-> 0,
   feature_names |-> <<<<"n","u","m","_","_","l","t","i","_","r","a","t","i","o">>, <<"n","u","m","_","_","l","o","a","n","_","a","m","n","t","_","p","e","r","_","p","e","r","s","o","n","_","i","n","c","o","m","e">>,
                       <<"c","a","t","_","_","l","o","a","n","_","g","r","a","d","e","_","D">>>>,
   importances |-> <<1, 2, 1>>]

\* A model fitted on fewer columns than the preprocess step produces, with
\* no step in between: predict_proba raises.
SkewedModelPipeline ==
  [columns |-> <<Num("person_income", 1),
                 Cat("loan_grade", "A"), Cat("loan_grade", "D")>>,
   handle_unknown |-> "ignore",
   dropped |-> 0,
   feature_names |-> <<<<"n","u","m","_","_","p","e","r","s","o","n","_","i","n","c","o","m","e">>, <<"c","a","t","_","_","l","o","a","n","_","g","r","a","d","e","_","A">>,
                       <<"c","a","t","_","_","l","o","a","n","_","g","r","a","d","e","_","D">>>>,
   importances |-> <<2, 1>>]

\* A selection step between preprocess and model keeps two columns.
SelectedPipeline ==
  [columns |-> <<Num("person_income", 1),
                 Cat("loan_grade", "A"), Cat("loan_grade", "D")>>,
   handle_unknown |-> "ignore",
   dropped |-> 1,
   feature_names |-> <<<<"n","u","m","_","_","p","e","r","s","o","n","_","i","n","c","o","m","e">>, <<"c","a","t","_","_","l","o","a","n","_","g","r","a","d","e","_","A">>,
                       <<"c","a","t","_","_","l","o","a","n","_","g","r","a","d","e","_","D">>>>,
   importances |-> <<2, 1>>]

\* A selection step keeps one column.
SingleFeaturePipeline ==
  [columns |-> <<Num("person_income", 1),
                 Cat("loan_grade", "A"), Cat("loan_grade", "D")>>,
   handle_unknown |-> "ignore",
   dropped |-> 2,
   feature_names |-> <<<<"n","u","m","_","_","p","e","r","s","o","n","_","i","n","c","o","m","e">>, <<"c","a","t","_","_","l","o","a","n","_","g","r","a","d","e","_","A">>,
                       <<"c","a","t","_","_","l","o","a","n","_","g","r","a","d","e","_","D">>>>,
   importances |-> <<1>>]

\* get_feature_names_out() returns fewer names than transform has columns.
ShortNamesPipeline ==
  [columns |-> <<Num("person_income", 1), Num("loan_amnt", 0),
                 Cat("loan_grade", "D")>>,
   handle_unknown |-> "ignore",
   dropped |-> 0,
   feature_names |-> <<<<"n","u","m","_","_","p","e","r","s","o","n","_","i","n","c","o","m","e">>, <<"n","u","m","_","_","l","o","a","n","_","a","m","n","t">>>>,
   importances |-> <<2, 1, 1>>]

Pipelines ==
  {FullPipeline, StrictPipeline, EngineeredPipeline, SkewedModelPipeline,
   SelectedPipeline, SingleFeaturePipeline, ShortNamesPipeline}

\* preprocess.transform(input_data)[0], line 102 and inside line 82.
transform(p, rec) ==
  [i \in 1..Len(p.columns) |->
     LET c == p.columns[i]
     IN IF c.kind = "num" THEN rec[c.field] - c.center
        ELSE IF rec[c.field] = c.cat THEN 1 ELSE 0]

\* The encoder was fitted with handle_unknown = "error" and the record holds
\* a category it never saw.
SchemaMismatch(p, rec) ==
  /\ p.handle_unknown = "error"
  /\ \E f \in Fields \ NumericFields :
       /\ \E i \in 1..Len(p.columns) : p.columns[i].field = f
       /\ \A i \in 1..Len(p.columns) :
            p.columns[i].field = f => p.columns[i].cat # rec[f]

\* The vector that reaches the model has another width than it was fitted on.
InferenceError(p) == Len(p.columns) - p.dropped # Len(p.importances)

\* pipeline.predict_proba(input_data) raises, line 82.
PredictRaises(p, rec) == SchemaMismatch(p, rec) \/ InferenceError(p)

\* The probabilities predict_proba may return.
PDValues ==
  {Rat(n, 1000000) : n \in {0, 2000, 99999, 100000, 249999, 250000, 1000000}}

----------------------------------------------------------------------------
(* The explanation, lines 100-219.                                         *)

top_n == 5

\* The literal 0.1 of line 161.
NoiseFloor == Rat(1, 10)

Max(a, b) == IF a >= b THEN a ELSE b

\* NumPy broadcasts two one-dimensional arrays when their lengths agree or
\* one of them has length 1; otherwise `*` raises ValueError.
Broadcastable(a, b) == Len(a) = Len(b) \/ Len(a) = 1 \/ Len(b) = 1

BroadcastAt(a, i) == IF Len(a) = 1 THEN a[1] ELSE a[i]

\* Mutant: np.abs forgotten.
FeatureContributions_signed(data_row, importances) ==
  [i \in 1..Max(Len(data_row), Len(importances)) |->
     BroadcastAt(data_row, i) * BroadcastAt(importances, i)]

\* Line 114: np.abs(data_row) * importances.
FeatureContributions(data_row, importances) ==
  [i \in 1..Max(Len(data_row), Len(importances)) |->
     Abs(BroadcastAt(data_row, i)) * BroadcastAt(importances, i)]

\* Mutant: the factor 100 forgotten (fractions of PD, not percentages).
FeaturePcts_no_percent(feature_contributions, pd) ==
  LET total == IntSum(feature_contributions)
  IN IF total > 0
     THEN [i \in 1..Len(feature_contributions) |->
             RatMul(RatDiv(RatOfInt(feature_contributions[i]),
                           RatOfInt(total)), pd)]
     ELSE [i \in 1..Len(feature_contributions) |-> RatOfInt(0)]

\* Lines 115-119.
FeaturePcts(feature_contributions, pd) ==
  LET total == IntSum(feature_contributions)
  IN IF total > 0
     THEN [i \in 1..Len(feature_contributions) |->
             RatMul(RatMul(RatDiv(RatOfInt(feature_contributions[i]),
                                  RatOfInt(total)), pd), RatOfInt(100))]
     ELSE [i \in 1..Len(feature_contributions) |-> RatOfInt(0)]

\* The sort key of each feature: how many features have a smaller value.
SortKeys(pcts) ==
  [i \in 1..Len(pcts) |->
     Cardinality({j \in 1..Len(pcts) : RatLess(pcts[j], pcts[i])})]

\* np.argsort with its default kind ("quicksort", which NumPy documents as
\* not stable): every arrangement of the indices in ascending order of
\* value is a possible result; equal values come in any order.
RECURSIVE AscendingOrders(_, _)
AscendingOrders(S, keys) ==
  IF S = {} THEN {<<>>}
  ELSE LET least == {m \in S : \A j \in S : keys[m] <= keys[j]}
       IN UNION {{<<m>> \o rest : rest \in AscendingOrders(S \ {m}, keys)} :
                 m \in least}

\* (Binding keys over a singleton set has TLC compute it once.)
Argsort(pcts) ==
  UNION {AscendingOrders(1..Len(pcts), keys) : keys \in {SortKeys(pcts)}}

\* The slice [::-1].
Reversed(s) == [i \in 1..Len(s) |-> s[Len(s) + 1 - i]]

\* Mutant: the slice [::-1] forgotten.
SortedIdx_ascending(pcts) == Argsort(pcts)

\* Line 152: the possible values of sorted_idx.
SortedIdx(pcts) == {Reversed(order) : order \in Argsort(pcts)}

\* Mutant: `shown > top_n`.
LoopBreaks_off_by_one(n) == n > top_n

\* Line 157.
LoopBreaks(n) == n >= top_n

\* Mutant: `impact <= 0.1`.
Skipped_inclusive(impact) == RatLeq(impact, NoiseFloor)

\* Line 161.
Skipped(impact) == RatLess(impact, NoiseFloor)

\* Lines 156-213, from position pos of sorted_idx with `retained` already
\* emitted: the indices emitted when the loop ends, and whether it ended by
\* feature_names[idx] raising IndexError (line 159).  skipped[i] is the
\* test of line 161 on feature_pcts[i].
RECURSIVE EmissionLoop(_, _, _, _, _)
EmissionLoop(sorted_idx, pos, retained, skipped, n_names) ==
  IF pos > Len(sorted_idx) THEN [retained |-> retained, raised |-> FALSE]
  ELSE IF LoopBreaks(Len(retained)) THEN [retained |-> retained, raised |-> FALSE]
  ELSE IF sorted_idx[pos] > n_names THEN [retained |-> retained, raised |-> TRUE]
  ELSE IF skipped[sorted_idx[pos]]
       THEN EmissionLoop(sorted_idx, pos + 1, retained, skipped, n_names)
  ELSE EmissionLoop(sorted_idx, pos + 1, Append(retained, sorted_idx[pos]),
                    skipped, n_names)

\* Lines 159-212: what is rendered for a retained feature.
Entry(idx, feature_names, pcts) ==
  [idx |-> idx,
   fname |-> feature_names[idx],
   display_name |-> DisplayName(feature_names[idx]),
   impact |-> pcts[idx],
   suggestion |-> LookupSuggestion(feature_names[idx])]

\* Mutant: the `shown == 0` case forgotten.
ClosingNote_no_strong(raised, n) == IF raised THEN "unavailable" ELSE "none"

\* Lines 215-219: the note that closes the section.
ClosingNote(raised, n) ==
  IF raised THEN "unavailable" ELSE IF n = 0 THEN "strong" ELSE "none"

----------------------------------------------------------------------------
(* The state machine.                                                      *)

Cleared ==
  /\ pd_val' = None
  /\ risk' = "none"
  /\ banner' = "none"
  /\ feature_pcts' = <<>>
  /\ contributions' = <<>>
  /\ shown' = 0

\* The first run of the script: the widgets hold their defaults and the
\* button is not pressed (lines 221-223).
Init ==
  /\ pipeline \in Pipelines
  /\ input_data = [f \in Fields |-> IF f \in NumericFields THEN 0 ELSE "A"]
  /\ pc = "idle"
  /\ pd_val = None
  /\ risk = "none"
  /\ banner = "none"
  /\ feature_pcts = <<>>
  /\ contributions = <<>>
  /\ shown = 0
  /\ note = "prompt"

\* A sidebar widget changes (lines 28-38): the script reruns with the button
\* not pressed and renders the prompt of lines 221-223.
ChangeWidget ==
  /\ \E f \in Fields : \E v \in DomainOf(f) :
       /\ v # input_data[f]
       /\ input_data' = [input_data EXCEPT ![f] = v]
  /\ Cleared
  /\ note' = "prompt"
  /\ pc' = "idle"
  /\ UNCHANGED pipeline

\* Mutant: the exception is swallowed and the run reports a PD of 0.
AssessRiskRaises_swallowed ==
  /\ PredictRaises(pipeline, input_data)
  /\ pd_val' = RatOfInt(0)
  /\ risk' = risk_bucket(RatOfInt(0))
  /\ banner' = BannerOf(risk_bucket(RatOfInt(0)))
  /\ feature_pcts' = <<>>
  /\ contributions' = <<>>
  /\ shown' = 0
  /\ note' = "none"
  /\ pc' = "idle"
  /\ UNCHANGED <<pipeline, input_data>>

\* Lines 81-82 when predict_proba raises: nothing catches the exception, the
\* run ends there and Streamlit renders the exception in the page.
AssessRiskRaises ==
  /\ PredictRaises(pipeline, input_data)
  /\ Cleared
  /\ note' = "uncaught"
  /\ pc' = "idle"
  /\ UNCHANGED <<pipeline, input_data>>

\* Lines 81-95: the button is pressed and predict_proba returns.
AssessRisk ==
  /\ ~PredictRaises(pipeline, input_data)
  /\ \E p \in PDValues :
       /\ pd_val' = p
       /\ risk' = risk_bucket(p)
       /\ banner' = BannerOf(risk_bucket(p))
  /\ feature_pcts' = <<>>
  /\ contributions' = <<>>
  /\ shown' = 0
  /\ note' = "none"
  /\ pc' = "explain"
  /\ UNCHANGED <<pipeline, input_data>>

\* Lines 100-114 when np.abs(data_row) * importances raises ValueError:
\* the handler of lines 218-219 renders the note.
ExplainShapeError ==
  /\ pc = "explain"
  /\ ~Broadcastable(transform(pipeline, input_data), pipeline.importances)
  /\ note' = "unavailable"
  /\ pc' = "idle"
  /\ UNCHANGED <<pipeline, input_data, pd_val, risk, banner,
                 feature_pcts, contributions, shown>>

\* Lines 100-219 otherwise.  (The values bound over singleton sets are the
\* script's local variables, computed once.)
Explain ==
  /\ pc = "explain"
  /\ Broadcastable(transform(pipeline, input_data), pipeline.importances)
  /\ \E data_row \in {transform(pipeline, input_data)} :
     \E pcts \in {FeaturePcts(
                    FeatureContributions(data_row, pipeline.importances),
                    pd_val)} :
     \E skipped \in {[i \in 1..Len(pcts) |-> Skipped(pcts[i])]} :
     \E run \in {EmissionLoop(sorted_idx, 1, <<>>, skipped,
                              Len(pipeline.feature_names)) :
                   sorted_idx \in SortedIdx(pcts)} :
       /\ feature_pcts' = pcts
       /\ contributions' =
            [k \in 1..Len(run.retained) |->
               Entry(run.retained[k], pipeline.feature_names, pcts)]
       /\ shown' = Len(run.retained)
       /\ note' = ClosingNote(run.raised, Len(run.retained))
  /\ pc' = "idle"
  /\ UNCHANGED <<pipeline, input_data, pd_val, risk, banner>>

Next ==
  \/ ChangeWidget
  \/ AssessRiskRaises
  \/ AssessRisk
  \/ ExplainShapeError
  \/ Explain

Spec == Init /\ [][Next]_vars

----------------------------------------------------------------------------
(* The properties.                                                         *)

Hundred == RatOfInt(100)

\* The explanation of the current run went past line 119.
PctsComputed == feature_pcts # <<>>

\* The total of line 115 for the current inputs.
Total ==
  IntSum(FeatureContributions(transform(pipeline, input_data),
                              pipeline.importances))

\* The indices of the features rendered so far.
EmittedIdx == {contributions[k].idx : k \in 1..Len(contributions)}

\* The features at or above the noise floor.
AboveFloor == {i \in 1..Len(feature_pcts) : RatLeq(NoiseFloor, feature_pcts[i])}

\* The three vectors of the explanation have one length.
ShapesAgree ==
  /\ Len(pipeline.feature_names) = Len(pipeline.columns)
  /\ Len(pipeline.importances) = Len(pipeline.columns)

\* A run of the button has finished with a prediction.
Assessed == pc = "idle" /\ pd_val # None

\* C1: risk_bucket maps every PD to Low below 0.10, to Medium from 0.10 up
\* to but excluding 0.25, and to High from 0.25; 0.099999 is Low, 0.10 is
\* Medium, 0.249999 is Medium and 0.25 is High.
C1_RiskBucket ==
  pd_val # None =>
    /\ (100 * pd_val.num < 10 * pd_val.den) => risk = "Low"
    /\ (100 * pd_val.num >= 10 * pd_val.den /\ 100 * pd_val.num < 25 * pd_val.den)
         => risk = "Medium"
    /\ (100 * pd_val.num >= 25 * pd_val.den) => risk = "High"
    /\ (pd_val = Rat(99999, 1000000)) => risk = "Low"
    /\ (pd_val = Rat(100000, 1000000)) => risk = "Medium"
    /\ (pd_val = Rat(249999, 1000000)) => risk = "Medium"
    /\ (pd_val = Rat(250000, 1000000)) => risk = "High"

C1_Witness == pd_val = Rat(250000, 1000000) /\ risk = "High"

\* C2: when the total of the contributions is positive, the impact
\* percentages of all transformed features add up to PD * 100.
C2_ImpactsSumToPD ==
  (PctsComputed /\ Total > 0) =>
    RatSum(feature_pcts) = RatMul(pd_val, Hundred)

C2_Witness ==
  /\ PctsComputed
  /\ Total > 0
  /\ pd_val = Rat(249999, 1000000)
  /\ Cardinality({i \in 1..Len(feature_pcts) : feature_pcts[i].num > 0}) >= 3

C4_AtMostFiveAboveFloor ==
  /\ Len(contributions) <= 5
  /\ shown = Len(contributions)
  /\ \A k \in 1..Len(contributions) :
       /\ RatLeq(NoiseFloor, contributions[k].impact)
       /\ contributions[k].impact = feature_pcts[contributions[k].idx]

C4_Witness ==
  /\ Len(contributions) >= 1
  /\ \E k \in 1..Len(contributions) : contributions[k].impact = NoiseFloor
  /\ \E i \in 1..Len(feature_pcts) :
       /\ feature_pcts[i].num > 0
       /\ RatLess(feature_pcts[i], NoiseFloor)
       /\ i \notin EmittedIdx

\* C5: when every transformed value is 0 (and the vectors agree in length),
\* every impact percentage is 0 without any division, nothing is rendered
\* and the run closes with the "profile already strong" note.
C5_AllZeroIsStrong ==
  ( /\ Assessed
    /\ ShapesAgree
    /\ \A i \in 1..Len(pipeline.columns) :
         transform(pipeline, input_data)[i] = 0 )
  => /\ Total = 0
     /\ Len(feature_pcts) = Len(pipeline.columns)
     /\ \A i \in 1..Len(feature_pcts) : feature_pcts[i] = RatOfInt(0)
     /\ contributions = <<>>
     /\ shown = 0
     /\ note = "strong"

C5_Witness ==
  /\ Assessed
  /\ ShapesAgree
  /\ \A i \in 1..Len(pipeline.columns) : transform(pipeline, input_data)[i] = 0
  /\ pd_val = Rat(1, 1)
  /\ note = "strong"

\* C6 as the specification states it: when the explanation fails, PD and
\* the risk bucket are on the page, the "unavailable" note is shown and no
\* contribution has been rendered.
C6_FailureOmitsExplanation ==
  note = "unavailable" =>
    /\ pd_val # None
    /\ risk = risk_bucket(pd_val)
    /\ contributions = <<>>

FirstMatchText(fname) ==
  LET hits == {k \in 1..Len(suggestion_map) :
                 IsSubstring(suggestion_map[k].key, fname)}
  IN IF hits = {} THEN FallbackSuggestion
     ELSE suggestion_map[CHOOSE k \in hits : \A j \in hits : k <= j].text

AllFeatureNames ==
  UNION {{p.feature_names[i] : i \in 1..Len(p.feature_names)} : p \in Pipelines}

ExpectedSuggestion == [f \in AllFeatureNames |-> FirstMatchText(f)]

\* C8: the suggestion of a rendered feature is the text of the first key, in
\* table order, that is a substring of the unstripped feature name, and the
\* fallback when no key is; "loan_grade_D" and "cat__loan_grade_D" get the
\* text of the loan_grade_D rule.
C8_FirstSubstringMatch ==
  \A k \in 1..Len(contributions) :
    LET e == contributions[k]
    IN /\ e.fname = pipeline.feature_names[e.idx]
       /\ e.suggestion = ExpectedSuggestion[e.fname]
       /\ e.fname \in {<<"l","o","a","n","_","g","r","a","d","e","_","D">>, <<"c","a","t","_","_","l","o","a","n","_","g","r","a","d","e","_","D">>}
            => e.suggestion =
                 "A better loan grade (A-C) would significantly lower risk."
       /\ e.fname = <<"n","u","m","_","_","l","t","i","_","r","a","t","i","o">> => e.suggestion = FallbackSuggestion
       /\ e.fname = <<"n","u","m","_","_","l","o","a","n","_","a","m","n","t","_","p","e","r","_","p","e","r","s","o","n","_","i","n","c","o","m","e">>
            => e.suggestion =
                 "A higher income reduces default probability. Consider ways to increase earnings."

C8_Witness ==
  /\ \E k \in 1..Len(contributions) :
       /\ contributions[k].fname = <<"c","a","t","_","_","l","o","a","n","_","g","r","a","d","e","_","D">>
       /\ contributions[k].suggestion # FallbackSuggestion
  /\ \E k \in 1..Len(contributions) :
       /\ contributions[k].fname = <<"n","u","m","_","_","l","t","i","_","r","a","t","i","o">>
       /\ contributions[k].suggestion = FallbackSuggestion

\* C9: every impact percentage lies between 0 and 100, whether the total
\* is positive or 0.
C9_ImpactWithinRange ==
  \A i \in 1..Len(feature_pcts) :
    /\ feature_pcts[i].den > 0
    /\ RatLeq(RatOfInt(0), feature_pcts[i])
    /\ RatLeq(feature_pcts[i], Hundred)

C9_Witness ==
  /\ PctsComputed
  /\ Total > 0
  /\ \E i \in 1..Len(feature_pcts) : feature_pcts[i] = Hundred
  /\ \E i \in 1..Len(feature_pcts) : feature_pcts[i] = RatOfInt(0)

\* C10: when the loop has run (every index it visits has a name), the
\* rendered features are min(5, k) distinct features among the k at or
\* above 0.1, in descending order of impact; one of those k is left out
\* only when 5 are rendered, none of them with a smaller impact than it.
C10_FirstFiveAboveFloor ==
  ( /\ Assessed
    /\ PctsComputed
    /\ Len(pipeline.feature_names) >= Len(feature_pcts) )
  => /\ note # "unavailable"
     /\ EmittedIdx \subseteq AboveFloor
     /\ Cardinality(EmittedIdx) = Len(contributions)
     /\ Len(contributions) =
          (IF Cardinality(AboveFloor) < top_n THEN Cardinality(AboveFloor)
           ELSE top_n)
     /\ \A a, b \in 1..Len(contributions) :
          a < b => RatLeq(contributions[b].impact, contributions[a].impact)
     /\ \A i \in AboveFloor \ EmittedIdx :
          /\ Len(contributions) = top_n
          /\ \A k \in 1..Len(contributions) :
               RatLeq(feature_pcts[i], contributions[k].impact)

C10_Witness ==
  /\ Assessed
  /\ Cardinality(AboveFloor) = 6
  /\ Len(contributions) = 5
  /\ \E i \in AboveFloor \ EmittedIdx :
       RatLess(feature_pcts[i], contributions[1].impact)

====
